---- MODULE Spec2Model ----
(***************************************************************************)
(* Model of the conversational assistant: the guardrail filter             *)
(* (guardrails.py and agent.py), the query handlers of the agent           *)
(* (agent.py) and the memory store with compaction (memory_manager.py).    *)
(* Texts are TLA+ strings; Len, \o and SubSeq act on their characters.     *)
(***************************************************************************)
EXTENDS Integers, Sequences, FiniteSets, TLC

VARIABLES
    agent_memory,         \* OpenAIAgentSDK.conversation_memory: session id -> exchanges
    conversation_memory,  \* MemoryManager.conversation_memory: session id -> exchanges
    max_exchanges,        \* MemoryManager.max_exchanges
    keep_recent,          \* MemoryManager.keep_recent
    clock,                \* the last value time.time() returned
    threads,              \* the update_memory calls in progress, one per caller thread
    last                  \* what the last completed operation did and returned

vars == <<agent_memory, conversation_memory, max_exchanges, keep_recent, clock, threads, last>>

(***************************************************************************)
(* Python primitives                                                       *)
(***************************************************************************)

\* Python's None, as a value no text of the model equals.
None == "<None>"

UpperCaseLetters == "ABCDEFGHIJKLMNOPQRSTUVWXYZ"
LowerCaseLetters == "abcdefghijklmnopqrstuvwxyz"

CharAt(s, i) == SubSeq(s, i, i)

\* str.lower() on one character: an upper-case letter becomes its lower-case
\* letter, every other character is kept.
LowerChar(c) ==
    IF \E i \in 1..Len(UpperCaseLetters) : CharAt(UpperCaseLetters, i) = c
    THEN CharAt(LowerCaseLetters,
                CHOOSE i \in 1..Len(UpperCaseLetters) : CharAt(UpperCaseLetters, i) = c)
    ELSE c

RECURSIVE lower(_)
\* str.lower()
lower(s) ==
    IF Len(s) = 0 THEN ""
    ELSE LowerChar(CharAt(s, 1)) \o lower(SubSeq(s, 2, Len(s)))

\* Python's `keyword in text` on strings: keyword occurs as a contiguous substring.
StrIn(keyword, text) ==
    \E i \in 1..(Len(text) - Len(keyword) + 1) :
        SubSeq(text, i, i + Len(keyword) - 1) = keyword

\* Python's any(keyword in text for keyword in keywords)
AnyKeywordIn(keywords, text) == \E keyword \in keywords : StrIn(keyword, text)

\* Python's seq[-k:] for k >= 0 (seq[-0:] is seq[0:], the whole sequence).
PyLast(seq, k) ==
    IF k = 0 \/ k >= Len(seq) THEN seq
    ELSE SubSeq(seq, Len(seq) - k + 1, Len(seq))

\* Python's seq[:-k] for k >= 0 (seq[:-0] is seq[:0], the empty sequence).
PyButLast(seq, k) ==
    IF k = 0 \/ k >= Len(seq) THEN <<>>
    ELSE SubSeq(seq, 1, Len(seq) - k)

RECURSIVE Join(_, _)
\* sep.join(parts) for a sequence of strings
Join(sep, parts) ==
    IF Len(parts) = 0 THEN ""
    ELSE IF Len(parts) = 1 THEN parts[1]
    ELSE parts[1] \o sep \o Join(sep, Tail(parts))

RECURSIVE Concat(_)
\* the text accumulated by repeated `text += fragment`
Concat(parts) ==
    IF Len(parts) = 0 THEN "" ELSE parts[1] \o Concat(Tail(parts))

(***************************************************************************)
(* Guardrail filter                                                        *)
(***************************************************************************)

taiwan_politics_keywords ==
    { "taiwan politics", "taiwanese politics", "taiwan election", "taiwan government",
      "dpp", "kmt", "taiwan independence", "taiwan unification", "cross-strait",
      "taiwan china", "taiwan president", "taiwan democracy", "taiwan party",
      "pan-blue", "pan-green", "taiwan political", "taiwan vote", "taiwan campaign" }

\* The fixed topic-redirect message (its trailing emoji is left out).
blocked_response ==
    "I appreciate your interest in current affairs! However, I'm designed to focus on "
    \o "helpful, informative topics rather than political discussions. I'd be happy to help "
    \o "you with questions about technology, business, weather, or other topics. "
    \o "What else can I assist you with?"

\* The fixed moderation refusal message (its trailing emoji is left out).
moderation_response ==
    "I understand you're looking for information, but I'm designed to have respectful, "
    \o "helpful conversations. Could we explore something else I can assist you with today?"

\* What the moderation service does with one call: it answers not flagged,
\* it answers flagged, or the call raises.
ModerationOutcomes == {"clean", "flagged", "error"}

\* One call to an external service, in the order the calls are made.
Call(svc, arg) == [svc |-> svc, arg |-> arg]

\* Mutant: the query must equal a phrase instead of containing it.
_contains_taiwan_politics_exact(query_lower) ==
    query_lower \in taiwan_politics_keywords

\* GuardrailsManager._contains_taiwan_politics
_contains_taiwan_politics(query_lower) ==
    AnyKeywordIn(taiwan_politics_keywords, query_lower)

\* Mutant: a failed moderation call counts as flagged.
_check_openai_moderation_fail_closed(user_query, moderation) ==
    moderation # "clean"

\* GuardrailsManager._check_openai_moderation: the flagged bit, False when the call raises.
_check_openai_moderation(user_query, moderation) ==
    IF moderation = "error" THEN FALSE ELSE moderation = "flagged"

\* GuardrailsManager.check_guardrails: the verdict and the service calls made.
GuardrailsManager_check_guardrails(user_query, moderation) ==
    LET query_lower == lower(user_query) IN
    IF _contains_taiwan_politics(query_lower)
    THEN [blocked |-> TRUE, message |-> blocked_response, raised |-> FALSE, calls |-> <<>>]
    ELSE IF _check_openai_moderation(user_query, moderation)
    THEN [blocked |-> TRUE, message |-> moderation_response, raised |-> FALSE,
          calls |-> <<Call("moderation", user_query)>>]
    ELSE [blocked |-> FALSE, message |-> None, raised |-> FALSE,
          calls |-> <<Call("moderation", user_query)>>]

\* Mutant: the moderation service is consulted before the deny-list.
check_guardrails_moderates_first(user_query, moderation) ==
    LET query_lower == lower(user_query) IN
    IF moderation = "flagged"
    THEN [blocked |-> TRUE, message |-> moderation_response, raised |-> FALSE,
          calls |-> <<Call("moderation", user_query)>>]
    ELSE IF AnyKeywordIn(taiwan_politics_keywords, query_lower)
    THEN [blocked |-> TRUE, message |-> blocked_response, raised |-> FALSE,
          calls |-> <<Call("moderation", user_query)>>]
    ELSE [blocked |-> FALSE, message |-> None, raised |-> FALSE,
          calls |-> <<Call("moderation", user_query)>>]

\* OpenAIAgentSDK.check_guardrails: the same two stages, written inline.
check_guardrails(user_query, moderation) ==
    LET query_lower == lower(user_query) IN
    IF AnyKeywordIn(taiwan_politics_keywords, query_lower)
    THEN [blocked |-> TRUE, message |-> blocked_response, raised |-> FALSE, calls |-> <<>>]
    ELSE IF moderation = "error"
    THEN [blocked |-> FALSE, message |-> None, raised |-> FALSE,
          calls |-> <<Call("moderation", user_query)>>]
    ELSE IF moderation = "flagged"
    THEN [blocked |-> TRUE, message |-> moderation_response, raised |-> FALSE,
          calls |-> <<Call("moderation", user_query)>>]
    ELSE [blocked |-> FALSE, message |-> None, raised |-> FALSE,
          calls |-> <<Call("moderation", user_query)>>]

(***************************************************************************)
(* Memory of the agent (agent.py)                                          *)
(***************************************************************************)

NoPreviousConversation == "No previous conversation."

\* The lines "User: ..." / "Assistant: ..." of the exchanges, in order.
RECURSIVE context_parts(_)
context_parts(exchanges) ==
    IF Len(exchanges) = 0 THEN <<>>
    ELSE <<"User: " \o exchanges[1].user, "Assistant: " \o exchanges[1].assistant>>
         \o context_parts(Tail(exchanges))

\* memory[-10:] in both get_memory_context methods
ContextExchanges == 10

\* OpenAIAgentSDK.get_memory_context
agent_get_memory_context(memory, session_id) ==
    IF session_id \notin DOMAIN memory THEN NoPreviousConversation
    ELSE Join("\n", context_parts(PyLast(memory[session_id], ContextExchanges)))

\* the [-20:] and > 20 of OpenAIAgentSDK.update_memory
AgentKeepLast == 20

\* dict assignment memory[key] = value
DictSet(memory, key, value) ==
    [k \in DOMAIN memory \cup {key} |-> IF k = key THEN value ELSE memory[k]]

\* dict deletion del memory[key]
DictDel(memory, key) == [k \in DOMAIN memory \ {key} |-> memory[k]]

\* OpenAIAgentSDK.update_memory: the memory after the call
agent_update_memory(memory, session_id, user_query, response) ==
    LET created  == IF session_id \in DOMAIN memory THEN memory
                    ELSE DictSet(memory, session_id, <<>>)
        appended == Append(created[session_id],
                           [user |-> user_query, assistant |-> response])
    IN  IF Len(appended) > AgentKeepLast
        THEN DictSet(created, session_id, PyLast(appended, AgentKeepLast))
        ELSE DictSet(created, session_id, appended)

(***************************************************************************)
(* Routing and the tools (agent.py, mcp_server.py, pdf_processor.py)       *)
(***************************************************************************)

web_keywords ==
    { "weather", "news", "current", "today", "latest", "stock price",
      "happening now", "temperature", "forecast" }

doc_keywords ==
    { "amazon", "aws", "shareholder", "financial", "revenue", "business",
      "profit", "earnings", "annual report" }

needs_web_search(query) == AnyKeywordIn(web_keywords, lower(query))

needs_document_search(query) == AnyKeywordIn(doc_keywords, lower(query))

\* str(e) of the exception an external service raises
ErrorText == "service unavailable"

\* What the search provider does with one call.
WebOutcomes == {"results", "empty", "error"}

\* What the document index does with one query.
RetrievalOutcomes == {"passages", "empty", "error"}

\* The results the search provider returns when it finds something.
WebResults ==
    << [title |-> "Paris weather", content |-> "Sunny, 21 C", url |-> "https://example.org/paris"] >>

\* The passages the document index returns when it finds something.
Passages == << "Amazon revenue grew 12% in 2023 to $575 billion." >>

\* Mutant: a failure of the search provider comes back as a result.
search_web_reports_failure(web) ==
    IF web = "results" THEN WebResults
    ELSE IF web = "error"
    THEN << [title |-> "Tavily search error", content |-> ErrorText, url |-> "N/A"] >>
    ELSE <<>>

\* MCPTavilyServer.search_web: the results, [] when the client raises
search_web(web) == IF web = "results" THEN WebResults ELSE <<>>

\* query_chroma: the passages, [] when the index raises
query_chroma(retrieval) == IF retrieval = "passages" THEN Passages ELSE <<>>

RECURSIVE formatted_results(_)
formatted_results(results) ==
    IF Len(results) = 0 THEN <<>>
    ELSE << "Title: " \o results[1].title \o "\nContent: " \o results[1].content
            \o "\nURL: " \o results[1].url >> \o formatted_results(Tail(results))

RECURSIVE quoted(_)
quoted(strings) ==
    IF Len(strings) = 0 THEN <<>>
    ELSE <<"'" \o strings[1] \o "'">> \o quoted(Tail(strings))

\* str() of a Python list of strings, as an f-string renders it
ListRepr(strings) == "[" \o Join(", ", quoted(strings)) \o "]"

\* OpenAIAgentSDK.search_web_tool
search_web_tool(web) ==
    LET results == search_web(web) IN
    IF Len(results) > 0
    THEN "Web search results:\n\n" \o Join("\n\n", formatted_results(results))
    ELSE "No web search results found."

\* OpenAIAgentSDK.search_documents_tool
search_documents_tool(retrieval) ==
    LET results == query_chroma(retrieval) IN
    IF Len(results) > 0
    THEN "Document search results: " \o ListRepr(results)
    ELSE "No relevant documents found."

\* What the completion service does with one composition call: the fragments it
\* produces (None is a chunk without content) and whether the call fails.
ComposerFragments == { <<>>, <<"It is ", None, "sunny.">> }
ComposerOutcomes == [fragments : ComposerFragments, error : BOOLEAN]

RECURSIVE WithContent(_)
\* the fragments whose content is not None
WithContent(fragments) ==
    IF Len(fragments) = 0 THEN <<>>
    ELSE IF fragments[1] = None THEN WithContent(Tail(fragments))
    ELSE <<fragments[1]>> \o WithContent(Tail(fragments))

\* Mutant: a failing completion call ends the stream without a word.
_stream_openai_response_silent(prompt, composer) == WithContent(composer.fragments)

\* OpenAIAgentSDK._stream_openai_response: the chunks it yields
_stream_openai_response(prompt, composer) ==
    IF composer.error
    THEN WithContent(composer.fragments) \o <<"Streaming error: " \o ErrorText>>
    ELSE WithContent(composer.fragments)

\* result.final_output of Runner.run_sync when it does not raise
final_output(composer) == Concat(WithContent(composer.fragments))

\* Python's `a or b` on a string a
StrOr(a, b) == IF a = "" THEN b ELSE a

web_prompt(user_query, web_results) ==
    "User asked: " \o user_query \o "\n\nWeb search results: " \o web_results
    \o "\n\nPlease provide a natural, helpful response based on this information."

doc_prompt(user_query, doc_results) ==
    "User asked: " \o user_query \o "\n\nDocument search results: " \o doc_results
    \o "\n\nPlease provide a natural, helpful response based on this information."

full_query(memory_context, user_query) ==
    "Previous conversation context: " \o memory_context
    \o "\n\nCurrent query: " \o user_query

\* The queries the handlers receive: ones of the test script and of the end-to-end
\* scenarios, and ones where two keyword lists meet.
Queries ==
    { "Tell me about Taiwan politics",
      "DPP news today",
      "What's the weather in Paris today?",
      "Amazon stock price today",
      "What was Amazon's 2023 revenue?",
      "How does machine learning work?" }

\* The queries the guardrail filter is called with: the handlers' queries, the
\* rest of the test script's, and deny-list phrases in other cases, inside
\* other words, and nearly but not quite present.
GuardQueries ==
    Queries \cup
    { "What's the weather like today?",
      "Taiwan independence movement",
      "Latest news about AI",
      "Current stock price",
      "AWS financial results",
      "kmt",
      "KMT",
      "Who leads the Kmt now?",
      "TAIWAN ELECTION results",
      "Pan-Green coalition",
      "cross-strait relations latest",
      "The DPPH assay protocol",
      "Taiwan  politics",
      "taiwanese food",
      "Taiwan travel tips",
      "" }

\* The verdicts and keyword matches of the queries, each computed once by the
\* operator above it and looked up by the handlers.
GuardrailsManagerVerdict ==
    [q \in GuardQueries |-> [m \in ModerationOutcomes |-> GuardrailsManager_check_guardrails(q, m)]]
AgentVerdict ==
    [q \in GuardQueries |-> [m \in ModerationOutcomes |-> check_guardrails(q, m)]]
NeedsWeb == [q \in Queries |-> needs_web_search(q)]
NeedsDocuments == [q \in Queries |-> needs_document_search(q)]

\* A service the handler never reaches has no outcome.
Uncalled == "uncalled"

\* The web branch of the handlers: the tool call made and the prompt composed.
WebRoute(user_query, web) ==
    [route |-> "WEB",
     calls |-> <<Call("web_search", user_query)>>,
     prompt |-> web_prompt(user_query, search_web_tool(web)),
     fallback |-> "I found some information but couldn't format it properly."]

\* The document branch of the handlers.
DocumentsRoute(user_query, retrieval) ==
    [route |-> "DOCUMENTS",
     calls |-> <<Call("retrieval", user_query)>>,
     prompt |-> doc_prompt(user_query, search_documents_tool(retrieval)),
     fallback |-> "I found some information but couldn't format it properly."]

\* The general branch of the handlers.
GeneralRoute(user_query, memory_context) ==
    [route |-> "NONE",
     calls |-> <<>>,
     prompt |-> full_query(memory_context, user_query),
     fallback |-> "I apologize, but I couldn't generate a response."]

\* The two tool branches for each query and tool outcome, each computed once.
WebRouteOf == [q \in Queries |-> [w \in WebOutcomes |-> WebRoute(q, w)]]
DocumentsRouteOf == [q \in Queries |-> [d \in RetrievalOutcomes |-> DocumentsRoute(q, d)]]

\* Mutant: the domain keywords are tried before the freshness keywords.
Route_documents_first(user_query, memory_context, web, retrieval) ==
    IF NeedsDocuments[user_query]
    THEN DocumentsRoute(user_query, IF retrieval = Uncalled THEN "passages" ELSE retrieval)
    ELSE IF NeedsWeb[user_query] THEN WebRouteOf[user_query][web]
    ELSE GeneralRoute(user_query, memory_context)

\* Mutant: the document branch searches the web as well.
Route_documents_and_web(user_query, memory_context, web, retrieval) ==
    IF NeedsWeb[user_query] THEN WebRouteOf[user_query][web]
    ELSE IF NeedsDocuments[user_query]
    THEN [DocumentsRouteOf[user_query][retrieval] EXCEPT
            !.calls = @ \o <<Call("web_search", user_query)>>]
    ELSE GeneralRoute(user_query, memory_context)

\* Mutant: once the session has a history the tools are skipped.
Route_by_history(user_query, memory_context, web, retrieval) ==
    IF memory_context # NoPreviousConversation THEN GeneralRoute(user_query, memory_context)
    ELSE IF NeedsWeb[user_query] THEN WebRouteOf[user_query][web]
    ELSE IF NeedsDocuments[user_query] THEN DocumentsRouteOf[user_query][retrieval]
    ELSE GeneralRoute(user_query, memory_context)

\* The routing of both handlers (the if / elif / else on the keyword tests),
\* for a query that passed the guardrails.
Route(user_query, memory_context, web, retrieval) ==
    IF NeedsWeb[user_query] THEN WebRouteOf[user_query][web]
    ELSE IF NeedsDocuments[user_query] THEN DocumentsRouteOf[user_query][retrieval]
    ELSE GeneralRoute(user_query, memory_context)

\* OpenAIAgentSDK.process_query_async: what it returns, the calls it makes in
\* order and the memory it leaves. Every statement that can raise is inside the
\* try, so the handler raises nothing.
process_query_async(memory, user_query, session_id, svc) ==
    LET guard == AgentVerdict[user_query][svc.moderation] IN
    IF guard.blocked
    THEN [delivered |-> <<guard.message>>, route |-> "BLOCKED",
          calls |-> guard.calls, memory |-> memory, raised |-> FALSE]
    ELSE
    LET memory_context == agent_get_memory_context(memory, session_id)
        r == Route(user_query, memory_context, svc.web, svc.retrieval)
        calls == guard.calls \o r.calls \o <<Call("compose", r.prompt)>>
    IN  IF svc.composer.error
        THEN [delivered |-> <<"I encountered an error processing your request: " \o ErrorText>>,
              route |-> r.route, calls |-> calls, memory |-> memory, raised |-> FALSE]
        ELSE LET response == StrOr(final_output(svc.composer), r.fallback) IN
             [delivered |-> <<response>>, route |-> r.route, calls |-> calls,
              memory |-> agent_update_memory(memory, session_id, user_query, response),
              raised |-> FALSE]

\* Mutant: the refusal of a blocked query is stored as an exchange.
stream_response_async_stores_refusal(memory, user_query, session_id, svc) ==
    LET guard == AgentVerdict[user_query][svc.moderation] IN
    IF guard.blocked
    THEN [delivered |-> <<guard.message>>, route |-> "BLOCKED", calls |-> guard.calls,
          memory |-> agent_update_memory(memory, session_id, user_query, guard.message),
          raised |-> FALSE]
    ELSE
    LET r == Route(user_query, agent_get_memory_context(memory, session_id),
                   svc.web, svc.retrieval)
        chunks == _stream_openai_response(r.prompt, svc.composer)
    IN  [delivered |-> chunks, route |-> r.route,
         calls |-> guard.calls \o r.calls \o <<Call("compose", r.prompt)>>,
         memory |-> agent_update_memory(memory, session_id, user_query, Concat(chunks)),
         raised |-> FALSE]

\* OpenAIAgentSDK.stream_response_async: the chunks it yields, the calls it makes
\* in order and the memory it leaves. _stream_openai_response and the tools
\* raise nothing, so the handler's own except branch is never entered.
stream_response_async(memory, user_query, session_id, svc) ==
    LET guard == AgentVerdict[user_query][svc.moderation] IN
    IF guard.blocked
    THEN [delivered |-> <<guard.message>>, route |-> "BLOCKED",
          calls |-> guard.calls, memory |-> memory, raised |-> FALSE]
    ELSE
    LET memory_context == agent_get_memory_context(memory, session_id)
        r == Route(user_query, memory_context, svc.web, svc.retrieval)
        calls == guard.calls \o r.calls \o <<Call("compose", r.prompt)>>
        chunks == _stream_openai_response(r.prompt, svc.composer)
        full_response == Concat(chunks)
    IN  [delivered |-> chunks, route |-> r.route, calls |-> calls,
         memory |-> agent_update_memory(memory, session_id, user_query, full_response),
         raised |-> FALSE]

(***************************************************************************)
(* Inputs and bounds                                                       *)
(***************************************************************************)

\* The session the handlers are driven with.
AgentSessionIds == {"s1"}

\* The most exchanges the handlers store over all sessions of one run.
MaxStored == 1

RECURSIVE TotalLen(_, _)
TotalLen(memory, ids) ==
    IF ids = {} THEN 0
    ELSE LET id == CHOOSE x \in ids : TRUE
         IN  Len(memory[id]) + TotalLen(memory, ids \ {id})

Stored(memory) == TotalLen(memory, DOMAIN memory)

\* MAX_EXCHANGES and KEEP_RECENT_EXCHANGES when the environment sets neither
DefaultMaxExchanges == 20
DefaultKeepRecent == 5

NoThreads == <<>>

(***************************************************************************)
(* The agent and its guardrails: state machine                             *)
(***************************************************************************)

Init ==
    /\ agent_memory = <<>>
    /\ conversation_memory = <<>>
    /\ max_exchanges = DefaultMaxExchanges
    /\ keep_recent = DefaultKeepRecent
    /\ clock = 0
    /\ threads = NoThreads
    /\ last = [op |-> "init"]

\* A caller of GuardrailsManager.check_guardrails
GuardrailsManagerCheck ==
    \E q \in GuardQueries, m \in ModerationOutcomes :
        LET v == GuardrailsManagerVerdict[q][m] IN
        /\ last' = [op |-> "GuardrailsManager.check_guardrails", query |-> q,
                    moderation |-> m, blocked |-> v.blocked, message |-> v.message,
                    raised |-> v.raised, calls |-> v.calls]
        /\ UNCHANGED <<agent_memory, conversation_memory, max_exchanges, keep_recent,
                       clock, threads>>

\* A caller of OpenAIAgentSDK.check_guardrails
AgentCheck ==
    \E q \in GuardQueries, m \in ModerationOutcomes :
        LET v == AgentVerdict[q][m] IN
        /\ last' = [op |-> "OpenAIAgentSDK.check_guardrails", query |-> q,
                    moderation |-> m, blocked |-> v.blocked, message |-> v.message,
                    raised |-> v.raised, calls |-> v.calls]
        /\ UNCHANGED <<agent_memory, conversation_memory, max_exchanges, keep_recent,
                       clock, threads>>

\* The outcomes of the services one handled query can meet: every outcome of a
\* service the handler calls for this query, none for a service it does not call.
ServicesFor(q) ==
    UNION { LET allowed == ~AgentVerdict[q][m].blocked
                web == allowed /\ NeedsWeb[q]
                doc == allowed /\ ~NeedsWeb[q] /\ NeedsDocuments[q]
            IN  { [moderation |-> m, web |-> w, retrieval |-> d, composer |-> c] :
                    w \in IF web THEN WebOutcomes ELSE {Uncalled},
                    d \in IF doc THEN RetrievalOutcomes ELSE {Uncalled},
                    c \in IF allowed THEN ComposerOutcomes ELSE {Uncalled} }
          : m \in ModerationOutcomes }

ServicesOf == [q \in Queries |-> ServicesFor(q)]

\* What a handler leaves in `last`
Handled(op, q, sid, svc, r) ==
    [op |-> op, query |-> q, session |-> sid, svc |-> svc, before |-> agent_memory,
     delivered |-> r.delivered, route |-> r.route, calls |-> r.calls,
     raised |-> r.raised]

\* One query handled by process_query_async
ProcessQuery ==
    \E q \in Queries, sid \in AgentSessionIds : \E svc \in ServicesOf[q] :
        LET r == process_query_async(agent_memory, q, sid, svc) IN
        /\ Stored(r.memory) <= MaxStored
        /\ agent_memory' = r.memory
        /\ last' = Handled("process_query_async", q, sid, svc, r)
        /\ UNCHANGED <<conversation_memory, max_exchanges, keep_recent, clock, threads>>

\* One query handled by stream_response_async, run to its end
StreamResponse ==
    \E q \in Queries, sid \in AgentSessionIds : \E svc \in ServicesOf[q] :
        LET r == stream_response_async(agent_memory, q, sid, svc) IN
        /\ Stored(r.memory) <= MaxStored
        /\ agent_memory' = r.memory
        /\ last' = Handled("stream_response_async", q, sid, svc, r)
        /\ UNCHANGED <<conversation_memory, max_exchanges, keep_recent, clock, threads>>

\* The query handlers of the agent.
Next ==
    \/ ProcessQuery
    \/ StreamResponse

Spec == Init /\ [][Next]_vars

\* The lengths of the earlier conversations the handlers are run after: a
\* conversation of a dozen exchanges, and one longer than the agent keeps.
MidConversation == 12
LongConversation == 21

\* The exchange an earlier general query left in the agent's memory.
SeedQuery == "How does machine learning work?"
SeedResponse == "It is sunny."

RECURSIVE SeedMemory(_)
\* The agent's memory after n earlier queries of session "s1", as update_memory
\* left it.
SeedMemory(n) ==
    IF n = 0 THEN <<>>
    ELSE agent_update_memory(SeedMemory(n - 1), "s1", SeedQuery, SeedResponse)

SeedLengths == {0, 1, MidConversation, LongConversation}

InitHistory ==
    /\ agent_memory \in {SeedMemory(n) : n \in SeedLengths}
    /\ conversation_memory = <<>>
    /\ max_exchanges = DefaultMaxExchanges
    /\ keep_recent = DefaultKeepRecent
    /\ clock = 0
    /\ threads = NoThreads
    /\ last = [op |-> "init"]

\* The next query of the conversation, handled by process_query_async
ProcessQueryNext ==
    \E q \in Queries, sid \in AgentSessionIds : \E svc \in ServicesOf[q] :
        LET r == process_query_async(agent_memory, q, sid, svc) IN
        /\ last.op = "init"
        /\ agent_memory' = r.memory
        /\ last' = Handled("process_query_async", q, sid, svc, r)
        /\ UNCHANGED <<conversation_memory, max_exchanges, keep_recent, clock, threads>>

\* The next query of the conversation, handled by stream_response_async
StreamResponseNext ==
    \E q \in Queries, sid \in AgentSessionIds : \E svc \in ServicesOf[q] :
        LET r == stream_response_async(agent_memory, q, sid, svc) IN
        /\ last.op = "init"
        /\ agent_memory' = r.memory
        /\ last' = Handled("stream_response_async", q, sid, svc, r)
        /\ UNCHANGED <<conversation_memory, max_exchanges, keep_recent, clock, threads>>

NextHistory ==
    \/ ProcessQueryNext
    \/ StreamResponseNext

\* One query handled after earlier conversations of several lengths.
SpecHistory == InitHistory /\ [][NextHistory]_vars

\* The guardrail filter called on its own, as the test script calls it.
NextGuard ==
    \/ GuardrailsManagerCheck
    \/ AgentCheck

SpecGuard == Init /\ [][NextGuard]_vars

(***************************************************************************)
(* Memory store (memory_manager.py)                                        *)
(***************************************************************************)

SessionIds == {"s1", "s2"}

\* The texts the memory store is called with (the test script's).
UserTexts == {"Hello", "How are you?"}
AssistantTexts == {"Hi there!"}

\* The user field of the synthetic exchange a compaction prepends.
SummaryUser == "[Previous conversation summary]"

\* What the completion service does with one summarization call.
SummaryOutcomes == {"summary", "error"}

\* summary_response.choices[0].message.content when the call succeeds
SummaryText == "They greeted each other."

Exchange(user, assistant, timestamp) ==
    [user |-> user, assistant |-> assistant, timestamp |-> timestamp]

\* Mutant: a session without history renders as the empty text.
get_memory_context_no_sentinel(memory, session_id) ==
    IF session_id \notin DOMAIN memory THEN Join("\n", <<>>)
    ELSE Join("\n", context_parts(PyLast(memory[session_id], ContextExchanges)))

\* Mutant: the whole history is rendered, however long.
get_memory_context_whole(memory, session_id) ==
    IF session_id \notin DOMAIN memory THEN NoPreviousConversation
    ELSE Join("\n", context_parts(memory[session_id]))

\* MemoryManager.get_memory_context
get_memory_context(memory, session_id) ==
    IF session_id \notin DOMAIN memory THEN NoPreviousConversation
    ELSE Join("\n", context_parts(PyLast(memory[session_id], ContextExchanges)))

\* The first statements of MemoryManager.update_memory: the session is created
\* on first use and the exchange is appended to it.
append_exchange(memory, session_id, user_query, response, now) ==
    LET created == IF session_id \in DOMAIN memory THEN memory
                   ELSE DictSet(memory, session_id, <<>>)
    IN  DictSet(created, session_id,
                Append(created[session_id], Exchange(user_query, response, now)))

\* Mutant: compaction rebuilds the store with the compacted session alone.
_compact_memory_drops_others(memory, session_id, keep, summary, now) ==
    LET recent_conversations == PyLast(memory[session_id], keep)
    IN  IF summary = "summary"
        THEN DictSet(<<>>, session_id,
                     <<Exchange(SummaryUser, SummaryText, now)>> \o recent_conversations)
        ELSE DictSet(<<>>, session_id, recent_conversations)

\* Mutant: compaction keeps the oldest exchanges instead of the most recent.
_compact_memory_keeps_oldest(memory, session_id, keep, summary, now) ==
    LET oldest == SubSeq(memory[session_id], 1, keep)
    IN  IF summary = "summary"
        THEN DictSet(memory, session_id,
                     <<Exchange(SummaryUser, SummaryText, now)>> \o oldest)
        ELSE DictSet(memory, session_id, oldest)

\* MemoryManager._compact_memory: the memory it leaves, given what the
\* summarization call does and the time read for the summary exchange.
_compact_memory(memory, session_id, keep, summary, now) ==
    LET old_conversations    == PyButLast(memory[session_id], keep)
        recent_conversations == PyLast(memory[session_id], keep)
    IN  IF summary = "summary"
        THEN DictSet(memory, session_id,
                     <<Exchange(SummaryUser, SummaryText, now)>> \o recent_conversations)
        ELSE DictSet(memory, session_id, recent_conversations)

\* Mutant: compaction waits until the length exceeds max_exchanges.
update_memory_compacts_late(memory, session_id, user_query, response, maxex, keep, summary, now) ==
    LET appended == append_exchange(memory, session_id, user_query, response, now + 1)
    IN  IF Len(appended[session_id]) > maxex
        THEN [memory |-> _compact_memory(appended, session_id, keep, summary, now + 2),
              summarizations |-> 1,
              clock |-> IF summary = "summary" THEN now + 2 ELSE now + 1,
              raised |-> FALSE]
        ELSE [memory |-> appended, summarizations |-> 0, clock |-> now + 1,
              raised |-> FALSE]

\* MemoryManager.update_memory: the memory it leaves, the summarization calls it
\* makes and the last time it read. `now` is the last time read before the call.
update_memory(memory, session_id, user_query, response, maxex, keep, summary, now) ==
    LET appended == append_exchange(memory, session_id, user_query, response, now + 1)
    IN  IF Len(appended[session_id]) >= maxex
        THEN [memory |-> _compact_memory(appended, session_id, keep, summary, now + 2),
              summarizations |-> 1,
              clock |-> IF summary = "summary" THEN now + 2 ELSE now + 1,
              raised |-> FALSE]
        ELSE [memory |-> appended, summarizations |-> 0, clock |-> now + 1,
              raised |-> FALSE]

\* Mutant: clearing a session that is not there empties the store.
clear_session_memory_resets(memory, session_id) ==
    IF session_id \in DOMAIN memory THEN DictDel(memory, session_id) ELSE <<>>

\* MemoryManager.clear_session_memory
clear_session_memory(memory, session_id) ==
    IF session_id \in DOMAIN memory THEN DictDel(memory, session_id) ELSE memory

RECURSIVE total_chars(_)
\* sum(len(ex['user']) + len(ex['assistant']) for ex in memory)
total_chars(exchanges) ==
    IF Len(exchanges) = 0 THEN 0
    ELSE Len(exchanges[1].user) + Len(exchanges[1].assistant)
         + total_chars(Tail(exchanges))

\* Mutant: the statistics count turns, two per exchange.
get_session_stats_counts_turns(memory, session_id) ==
    IF session_id \notin DOMAIN memory
    THEN [exchanges |-> 0, total_tokens_estimate |-> 0]
    ELSE [exchanges |-> 2 * Len(memory[session_id]),
          total_chars |-> total_chars(memory[session_id]),
          estimated_tokens |-> total_chars(memory[session_id]) \div 4]

\* MemoryManager.get_session_stats
get_session_stats(memory, session_id) ==
    IF session_id \notin DOMAIN memory
    THEN [exchanges |-> 0, total_tokens_estimate |-> 0]
    ELSE [exchanges |-> Len(memory[session_id]),
          total_chars |-> total_chars(memory[session_id]),
          estimated_tokens |-> total_chars(memory[session_id]) \div 4]

\* The largest max_exchanges of the small policies explored.
MaxPolicy == 3

\* The policies MAX_EXCHANGES / KEEP_RECENT_EXCHANGES can set:
\* max_exchanges >= 1 and 0 <= keep_recent < max_exchanges.
Policies ==
    { p \in [max_exchanges : 1..MaxPolicy, keep_recent : 0..MaxPolicy] :
        p.keep_recent < p.max_exchanges }

\* The last time the store may read in one run.
MaxClock == 5

InitMemory ==
    /\ agent_memory = <<>>
    /\ conversation_memory = <<>>
    /\ \E p \in Policies :
          /\ max_exchanges = p.max_exchanges
          /\ keep_recent = p.keep_recent
    /\ clock = 0
    /\ threads = NoThreads
    /\ last = [op |-> "init"]

\* The last completed call was clear_session_memory on this session.
JustCleared(session_id) ==
    last.op = "clear_session_memory" /\ last.session = session_id

\* The n of "the n-th update_memory call on this session since it was last empty".
Nth(session_id) ==
    IF session_id \notin DOMAIN conversation_memory THEN 1
    ELSE IF "nth" \in DOMAIN last /\ last.session = session_id THEN last.nth + 1
    ELSE 0

\* One call of MemoryManager.update_memory, with the texts and the outcome of
\* the summarization call (no outcome when no call is made).
UpdateMemoryCall(session_id, user_query, response, summary) ==
    LET r == update_memory(conversation_memory, session_id, user_query, response,
                           max_exchanges, keep_recent, summary, clock)
    IN  /\ (summary = Uncalled) <=> (r.summarizations = 0)
        /\ conversation_memory' = r.memory
        /\ clock' = r.clock
        /\ last' = [op |-> "update_memory", session |-> session_id,
                    user |-> user_query, assistant |-> response, summary |-> summary,
                    before |-> conversation_memory, summarizations |-> r.summarizations,
                    raised |-> r.raised, nth |-> Nth(session_id)]
        /\ UNCHANGED <<agent_memory, max_exchanges, keep_recent, threads>>

UpdateMemory ==
    \E sid \in SessionIds, u \in UserTexts, a \in AssistantTexts,
       summary \in SummaryOutcomes \cup {Uncalled} :
        /\ clock + 2 <= MaxClock
        /\ UpdateMemoryCall(sid, u, a, summary)

\* One call of clear_session_memory; `again` tells that the call before it
\* cleared the same session.
ClearSessionMemory ==
    \E sid \in SessionIds :
        /\ conversation_memory' = clear_session_memory(conversation_memory, sid)
        /\ last' = [op |-> "clear_session_memory", session |-> sid,
                    before |-> conversation_memory, raised |-> FALSE,
                    again |-> JustCleared(sid)]
        /\ UNCHANGED <<agent_memory, max_exchanges, keep_recent, clock, threads>>

\* One call of get_memory_context; `cleared` is the history the call before it
\* cleared from the same session, if that is what the call before it did.
GetMemoryContext ==
    \E sid \in SessionIds :
        /\ last' = [op |-> "get_memory_context", session |-> sid,
                    before |-> conversation_memory,
                    returned |-> get_memory_context(conversation_memory, sid),
                    cleared |-> IF JustCleared(sid) /\ sid \in DOMAIN last.before
                                THEN last.before[sid] ELSE <<>>]
        /\ UNCHANGED <<agent_memory, conversation_memory, max_exchanges, keep_recent,
                       clock, threads>>

GetSessionStats ==
    \E sid \in SessionIds :
        /\ last' = [op |-> "get_session_stats", session |-> sid,
                    before |-> conversation_memory,
                    returned |-> get_session_stats(conversation_memory, sid)]
        /\ UNCHANGED <<agent_memory, conversation_memory, max_exchanges, keep_recent,
                       clock, threads>>

NextMemory ==
    \/ UpdateMemory
    \/ ClearSessionMemory
    \/ GetMemoryContext
    \/ GetSessionStats

\* The memory store used from one thread, under every policy.
SpecMemory == InitMemory /\ [][NextMemory]_vars

\* The last time the store may read in a run under the default policy.
MaxRunClock == 40

InitRun ==
    /\ agent_memory = <<>>
    /\ conversation_memory = <<>>
    /\ max_exchanges = DefaultMaxExchanges
    /\ keep_recent = DefaultKeepRecent
    /\ clock = 0
    /\ threads = NoThreads
    /\ last = [op |-> "init"]

\* The user's text at each turn of the long conversation: no two turns that
\* one history holds have the same text.
RunUserText(turn) == "Question " \o CharAt(LowerCaseLetters, (turn % 26) + 1)

\* The next exchange of a long conversation in session "s1".
UpdateRun ==
    \E summary \in SummaryOutcomes \cup {Uncalled} :
        /\ clock + 2 <= MaxRunClock
        /\ UpdateMemoryCall("s1", RunUserText(clock), "Hi there!", summary)

\* The context of the conversation is read after an exchange was stored.
GetContextRun ==
    /\ last.op = "update_memory"
    /\ last' = [op |-> "get_memory_context", session |-> "s1",
                before |-> conversation_memory,
                returned |-> get_memory_context(conversation_memory, "s1"),
                cleared |-> <<>>, nth |-> last.nth]
    /\ UNCHANGED <<agent_memory, conversation_memory, max_exchanges, keep_recent,
                   clock, threads>>

\* The conversation is started afresh.
ClearRun ==
    /\ "s1" \in DOMAIN conversation_memory
    /\ conversation_memory' = clear_session_memory(conversation_memory, "s1")
    /\ last' = [op |-> "clear_session_memory", session |-> "s1",
                before |-> conversation_memory, raised |-> FALSE]
    /\ UNCHANGED <<agent_memory, max_exchanges, keep_recent, clock, threads>>

NextRun ==
    \/ UpdateRun
    \/ ClearRun
    \/ GetContextRun

\* One long conversation under the default policy (max_exchanges = 20,
\* keep_recent = 5).
SpecRun == InitRun /\ [][NextRun]_vars

\* The last time the store may read in a run next to the agent's memory.
MaxTwinClock == 60

\* The next exchange of one conversation, stored in the agent's own memory by
\* OpenAIAgentSDK.update_memory and in the store by MemoryManager.update_memory.
UpdateBoth ==
    \E summary \in SummaryOutcomes \cup {Uncalled} :
        LET user_query == RunUserText(clock)
            r == update_memory(conversation_memory, "s1", user_query, "Hi there!",
                               max_exchanges, keep_recent, summary, clock)
        IN  /\ clock + 2 <= MaxTwinClock
            /\ (summary = Uncalled) <=> (r.summarizations = 0)
            /\ conversation_memory' = r.memory
            /\ clock' = r.clock
            /\ agent_memory' = agent_update_memory(agent_memory, "s1", user_query, "Hi there!")
            /\ last' = [op |-> "both.update_memory", session |-> "s1",
                        user |-> user_query, assistant |-> "Hi there!",
                        summary |-> summary, summarizations |-> r.summarizations,
                        before |-> conversation_memory, agent_before |-> agent_memory]
            /\ UNCHANGED <<max_exchanges, keep_recent, threads>>

\* The context of the conversation is read from both after an exchange was stored.
GetContextBoth ==
    /\ last.op = "both.update_memory"
    /\ last' = [op |-> "both.get_memory_context", session |-> "s1",
                returned |-> get_memory_context(conversation_memory, "s1"),
                agent_returned |-> agent_get_memory_context(agent_memory, "s1")]
    /\ UNCHANGED <<agent_memory, conversation_memory, max_exchanges, keep_recent,
                   clock, threads>>

NextTwin ==
    \/ UpdateBoth
    \/ GetContextBoth

\* One conversation stored in the agent's memory and in the store side by
\* side, under the default policy.
SpecTwin == InitRun /\ [][NextTwin]_vars

(***************************************************************************)
(* The memory store called from two threads                                *)
(***************************************************************************)

\* The caller threads, and the user text each one stores.
ThreadIds == {"t1", "t2"}
ThreadUser == [t \in ThreadIds |-> IF t = "t1" THEN "Hello" ELSE "How are you?"]

IdleThread ==
    [pc |-> "idle", session |-> None, user |-> None, assistant |-> None,
     old_conversations |-> <<>>, recent_conversations |-> <<>>, summary |-> None]

\* The last time the store may read before the threads start.
MaxPrefixClock == 4

InitThreads ==
    /\ agent_memory = <<>>
    /\ conversation_memory = <<>>
    /\ \E p \in Policies :
          /\ max_exchanges = p.max_exchanges
          /\ keep_recent = p.keep_recent
    /\ clock = 0
    /\ threads = [t \in ThreadIds |-> IdleThread]
    /\ last = [op |-> "init"]

ThreadsStarted == \E t \in ThreadIds : threads[t].pc # "idle"

\* Before the threads start: an update_memory call that runs alone.
PrefixUpdate ==
    \E sid \in SessionIds, summary \in SummaryOutcomes \cup {Uncalled} :
        /\ ~ThreadsStarted
        /\ clock + 2 <= MaxPrefixClock
        /\ UpdateMemoryCall(sid, "Hello", "Hi there!", summary)

\* Thread t enters update_memory(session_id, user_query, response).
ThreadCall(t) ==
    \E sid \in SessionIds :
        /\ threads[t].pc = "idle"
        /\ threads' = [threads EXCEPT ![t] =
                          [@ EXCEPT !.pc = "check", !.session = sid,
                                    !.user = ThreadUser[t], !.assistant = "Hi there!"]]
        /\ last' = IF ThreadsStarted THEN last
                   ELSE [op |-> "threads", base |-> conversation_memory]
        /\ UNCHANGED <<agent_memory, conversation_memory, max_exchanges, keep_recent, clock>>

\* `if session_id not in self.conversation_memory:`
ThreadCheck(t) ==
    /\ threads[t].pc = "check"
    /\ threads' = [threads EXCEPT ![t].pc =
                      IF threads[t].session \in DOMAIN conversation_memory
                      THEN "append" ELSE "create"]
    /\ UNCHANGED <<agent_memory, conversation_memory, max_exchanges, keep_recent, clock, last>>

\* `self.conversation_memory[session_id] = []`
ThreadCreate(t) ==
    /\ threads[t].pc = "create"
    /\ conversation_memory' = DictSet(conversation_memory, threads[t].session, <<>>)
    /\ threads' = [threads EXCEPT ![t].pc = "append"]
    /\ UNCHANGED <<agent_memory, max_exchanges, keep_recent, clock, last>>

\* `self.conversation_memory[session_id].append({...})`
ThreadAppend(t) ==
    /\ threads[t].pc = "append"
    /\ conversation_memory' =
          DictSet(conversation_memory, threads[t].session,
                  Append(conversation_memory[threads[t].session],
                         Exchange(threads[t].user, threads[t].assistant, clock + 1)))
    /\ clock' = clock + 1
    /\ threads' = [threads EXCEPT ![t].pc = "test"]
    /\ UNCHANGED <<agent_memory, max_exchanges, keep_recent, last>>

\* `if len(self.conversation_memory[session_id]) >= self.max_exchanges:`
ThreadTest(t) ==
    /\ threads[t].pc = "test"
    /\ threads' = [threads EXCEPT ![t].pc =
                      IF Len(conversation_memory[threads[t].session]) >= max_exchanges
                      THEN "slice" ELSE "done"]
    /\ UNCHANGED <<agent_memory, conversation_memory, max_exchanges, keep_recent, clock, last>>

\* _compact_memory reads the history and takes its two slices.
ThreadSlice(t) ==
    /\ threads[t].pc = "slice"
    /\ threads' = [threads EXCEPT ![t] =
          [@ EXCEPT !.pc = "summarize",
                    !.old_conversations =
                        PyButLast(conversation_memory[threads[t].session], keep_recent),
                    !.recent_conversations =
                        PyLast(conversation_memory[threads[t].session], keep_recent)]]
    /\ UNCHANGED <<agent_memory, conversation_memory, max_exchanges, keep_recent, clock, last>>

\* The summarization call returns or raises; the thread waited for it.
ThreadSummarize(t) ==
    \E summary \in SummaryOutcomes :
        /\ threads[t].pc = "summarize"
        /\ threads' = [threads EXCEPT ![t] = [@ EXCEPT !.pc = "replace", !.summary = summary]]
        /\ UNCHANGED <<agent_memory, conversation_memory, max_exchanges, keep_recent,
                       clock, last>>

\* `self.conversation_memory[session_id] = [summary exchange] + recent_conversations`,
\* or `= recent_conversations` in the except branch.
ThreadReplace(t) ==
    /\ threads[t].pc = "replace"
    /\ IF threads[t].summary = "summary"
       THEN /\ conversation_memory' =
                  DictSet(conversation_memory, threads[t].session,
                          <<Exchange(SummaryUser, SummaryText, clock + 1)>>
                          \o threads[t].recent_conversations)
            /\ clock' = clock + 1
       ELSE /\ conversation_memory' =
                  DictSet(conversation_memory, threads[t].session,
                          threads[t].recent_conversations)
            /\ clock' = clock
    /\ threads' = [threads EXCEPT ![t].pc = "done"]
    /\ UNCHANGED <<agent_memory, max_exchanges, keep_recent, last>>

NextThreads ==
    \/ PrefixUpdate
    \/ \E t \in ThreadIds : ThreadCall(t)
    \/ \E t \in ThreadIds : ThreadCheck(t)
    \/ \E t \in ThreadIds : ThreadCreate(t)
    \/ \E t \in ThreadIds : ThreadAppend(t)
    \/ \E t \in ThreadIds : ThreadTest(t)
    \/ \E t \in ThreadIds : ThreadSlice(t)
    \/ \E t \in ThreadIds : ThreadSummarize(t)
    \/ \E t \in ThreadIds : ThreadReplace(t)

\* Two threads that each call update_memory once, on a store some calls have
\* filled before; the statements of a call interleave with the other thread's.
SpecThreads == InitThreads /\ [][NextThreads]_vars

(***************************************************************************)
(* Properties of the guardrail filter and of the handlers                  *)
(***************************************************************************)

GuardOps == {"GuardrailsManager.check_guardrails", "OpenAIAgentSDK.check_guardrails"}
HandlerOps == {"process_query_async", "stream_response_async"}

\* The lower-cased query contains a deny-list phrase.
DenyListed ==
    [q \in GuardQueries |-> \E phrase \in taiwan_politics_keywords : StrIn(phrase, lower(q))]

\* The query contains a freshness keyword / a domain keyword, in any case.
Fresh == [q \in Queries |-> \E k \in web_keywords : StrIn(k, lower(q))]
Domain == [q \in Queries |-> \E k \in doc_keywords : StrIn(k, lower(q))]

\* How many of the calls went to the service.
Count(calls, svc) == Cardinality({i \in 1..Len(calls) : calls[i].svc = svc})

\* C1: a query whose lower-cased text contains a deny-list phrase is blocked with
\* the fixed topic-redirect message, whatever the moderation service would do.
C1_DenyListBlocks ==
    (last.op \in GuardOps /\ DenyListed[last.query])
        => /\ last.blocked = TRUE
           /\ last.message = blocked_response
           /\ ~last.raised

\* C1 witness: an upper-case deny-list phrase met a failing moderation service.
C1_Witness ==
    /\ last.op = "GuardrailsManager.check_guardrails"
    /\ last.query = "TAIWAN ELECTION results"
    /\ last.moderation = "error"
    /\ last.blocked

\* C2: in both handlers the guardrail check comes before every other call, and a
\* blocked query gets exactly the guardrail message, no retrieval, web-search or
\* composition call, and an unchanged memory.
C2_GuardrailFirst ==
    last.op \in HandlerOps =>
        LET denied  == DenyListed[last.query]
            flagged == ~denied /\ last.svc.moderation = "flagged"
        IN  /\ \A i \in 1..Len(last.calls) : last.calls[i].svc = "moderation" => i = 1
            /\ ~denied => (Len(last.calls) > 0 /\ last.calls[1].svc = "moderation")
            /\ (denied \/ flagged) =>
                  /\ last.delivered =
                        <<IF denied THEN blocked_response ELSE moderation_response>>
                  /\ \A i \in 1..Len(last.calls) :
                        last.calls[i].svc \notin {"retrieval", "web_search", "compose"}
                  /\ agent_memory = last.before

\* C2 witness: the streaming handler refused a flagged query in a session that
\* already held an exchange.
C2_Witness ==
    /\ last.op = "stream_response_async"
    /\ last.svc.moderation = "flagged"
    /\ ~DenyListed[last.query]
    /\ last.session \in DOMAIN last.before
    /\ last.delivered = <<moderation_response>>

\* C3: when the query passes the deny-list and the moderation call fails, the
\* verdict is not blocked, without a message, and nothing is raised.
C3_ModerationFailsOpen ==
    (last.op \in GuardOps /\ ~DenyListed[last.query] /\ last.moderation = "error")
        => /\ last.blocked = FALSE
           /\ last.message = None
           /\ ~last.raised

\* C3 witness: the moderation call failed on a query that passes the deny-list.
C3_Witness ==
    /\ last.op \in GuardOps
    /\ ~DenyListed[last.query]
    /\ last.moderation = "error"
    /\ ~last.blocked

\* C4: the moderation service is called only when the deny-list passes, then
\* exactly once, and its flagged bit decides the verdict.
C4_ModerationOnlyAfterStage1 ==
    last.op \in GuardOps =>
        IF DenyListed[last.query]
        THEN Count(last.calls, "moderation") = 0
        ELSE /\ last.calls = <<Call("moderation", last.query)>>
             /\ last.moderation = "flagged" =>
                    (last.blocked /\ last.message = moderation_response)
             /\ last.moderation = "clean" => ~last.blocked

\* C4 witness: the moderation service flagged a query that passes the deny-list.
C4_Witness ==
    /\ last.op = "OpenAIAgentSDK.check_guardrails"
    /\ ~DenyListed[last.query]
    /\ last.moderation = "flagged"
    /\ last.blocked
    /\ Count(last.calls, "moderation") = 1

\* The prompt of the composition call of the last handled query.
ComposedPrompt ==
    LET i == CHOOSE j \in 1..Len(last.calls) : last.calls[j].svc = "compose"
    IN  last.calls[i].arg

\* The handler let the query through.
Allowed ==
    /\ last.op \in HandlerOps
    /\ ~DenyListed[last.query]
    /\ last.svc.moderation # "flagged"

\* C9: an allowed query with a freshness keyword goes to web search only: no
\* retrieval call and no document context in the prompt, domain keyword or not.
C9_FreshnessRoutesWebOnly ==
    (Allowed /\ Fresh[last.query]) =>
        /\ Count(last.calls, "web_search") = 1
        /\ Count(last.calls, "retrieval") = 0
        /\ Count(last.calls, "compose") = 1
        /\ ~StrIn("Document search results", ComposedPrompt)
        /\ StrIn("Web search results", ComposedPrompt)

\* C9 witness: a query with a freshness and a domain keyword was answered.
C9_Witness ==
    /\ Allowed
    /\ last.query = "Amazon stock price today"
    /\ Fresh[last.query] /\ Domain[last.query]
    /\ last.svc.web = "results"
    /\ Count(last.calls, "web_search") = 1

\* C10: an allowed query with a domain keyword and no freshness keyword, for
\* which retrieval returns passages, goes to the documents only: no web call.
C10_DomainRoutesDocumentsOnly ==
    (Allowed /\ Domain[last.query] /\ ~Fresh[last.query]
        /\ last.svc.retrieval = "passages") =>
        /\ Count(last.calls, "retrieval") = 1
        /\ Count(last.calls, "web_search") = 0
        /\ Count(last.calls, "compose") = 1
        /\ StrIn(Passages[1], ComposedPrompt)

\* C10 witness: the revenue question was answered from the passages.
C10_Witness ==
    /\ Allowed
    /\ last.query = "What was Amazon's 2023 revenue?"
    /\ last.svc.retrieval = "passages"
    /\ Count(last.calls, "retrieval") = 1
    /\ last.op = "process_query_async"

(***************************************************************************)
(* Properties of the memory store                                          *)
(***************************************************************************)

\* The history of a session in a memory, empty when the session is absent.
History(memory, session_id) ==
    IF session_id \in DOMAIN memory THEN memory[session_id] ELSE <<>>

\* The history the last update_memory call found, and the one it left.
HistoryBefore == History(last.before, last.session)
HistoryAfter == History(conversation_memory, last.session)

\* The k most recent elements of a sequence (k <= Len(seq)), in order.
MostRecent(seq, k) == [i \in 1..k |-> seq[Len(seq) - k + i]]

\* C5: an update_memory call that brings the length to max_exchanges makes
\* exactly one summarization call and leaves keep_recent + 1 exchanges, the
\* first of them the summary exchange.
C5_CompactionLeavesSummaryPlusRecent ==
    (last.op = "update_memory" /\ Len(HistoryBefore) + 1 = max_exchanges
        /\ last.summary # "error") =>
        /\ last.summarizations = 1
        /\ Len(HistoryAfter) = keep_recent + 1
        /\ HistoryAfter[1].user = SummaryUser

\* C6: compaction fires exactly when the length after the append is at least
\* max_exchanges; under max_exchanges = 20, keep_recent = 5 the first 19 appends
\* to a new session give lengths 1..19, the 20th leaves 6 exchanges (summary and
\* 5 recent), the 21st 7, and a later compaction needs the length at 20 again.
C6_CompactionFiresAtMaxExchanges ==
    last.op = "update_memory" =>
        /\ (last.summarizations = 1) <=> (Len(HistoryBefore) + 1 >= max_exchanges)
        /\ last.summarizations \in {0, 1}
        /\ last.nth < DefaultMaxExchanges =>
              (last.summarizations = 0 /\ Len(HistoryAfter) = last.nth)
        /\ (last.nth = DefaultMaxExchanges /\ last.summary = "summary") =>
              Len(HistoryAfter) = DefaultKeepRecent + 1
        /\ (last.nth = DefaultMaxExchanges + 1 /\ HistoryAfter[1].user = SummaryUser) =>
              (last.summarizations = 0 /\ Len(HistoryAfter) = DefaultKeepRecent + 2)
        /\ (last.nth > DefaultMaxExchanges /\ last.summarizations = 1) =>
              Len(HistoryBefore) + 1 = DefaultMaxExchanges

\* C6 witness: the 21st exchange of a conversation, after the 20th was compacted.
C6_Witness ==
    /\ last.op = "update_memory"
    /\ last.nth = DefaultMaxExchanges + 1
    /\ HistoryAfter[1].user = SummaryUser
    /\ Len(HistoryAfter) = DefaultKeepRecent + 2

\* C6 second compaction reached: the conversation was compacted a second time.
C6_SecondCompaction ==
    /\ last.op = "update_memory"
    /\ last.nth > DefaultMaxExchanges + 1
    /\ last.summarizations = 1

\* C7: when the summarization call fails, the history becomes exactly the
\* keep_recent most recent exchanges, nothing is raised and the call is made once.
C7_FallbackKeepsRecent ==
    (last.op = "update_memory" /\ last.summary = "error") =>
        LET appended == Append(HistoryBefore,
                               Exchange(last.user, last.assistant, clock))
        IN  /\ HistoryAfter = MostRecent(appended, keep_recent)
            /\ ~last.raised
            /\ last.summarizations = 1

\* The user and assistant texts of a history, in order.
Texts(history) ==
    [i \in 1..Len(history) |->
        [user |-> history[i].user, assistant |-> history[i].assistant]]

\* The history of session sid after thread a's call and then thread b's, each
\* run alone, for every outcome of the summarization calls.
SerialHistories(base, sid, a, b) ==
    { LET first == update_memory(base, sid, threads[a].user, threads[a].assistant,
                                 max_exchanges, keep_recent, sa, 0)
          second == update_memory(first.memory, sid, threads[b].user,
                                  threads[b].assistant, max_exchanges, keep_recent, sb, 0)
      IN  Texts(second.memory[sid])
      : sa \in SummaryOutcomes, sb \in SummaryOutcomes }

\* Both threads have returned from a call on the same session, one that
\* existed when the first of them entered.
BothDoneOnOneSession ==
    /\ \A t \in ThreadIds : threads[t].pc = "done"
    /\ threads["t1"].session = threads["t2"].session
    /\ threads["t1"].session \in DOMAIN last.base

\* C8: two update_memory calls on one session that overlap lose no exchange:
\* they leave the history that one of the two serial orders of the calls leaves.
C8_OverlappingCallsSerialize ==
    BothDoneOnOneSession =>
        LET sid == threads["t1"].session IN
        Texts(conversation_memory[sid]) \in
            SerialHistories(last.base, sid, "t1", "t2")
            \cup SerialHistories(last.base, sid, "t2", "t1")

(***************************************************************************)
(* Claims about failures, context and memory of the handlers               *)
(***************************************************************************)

\* The text the user received from the handler.
DeliveredText == Concat(last.delivered)

\* C11: when the composition call fails, neither handler raises, and the user
\* receives a non-empty text that says an error occurred.
C11_CompositionFailureIsReported ==
    (Allowed /\ last.svc.composer.error) =>
        /\ ~last.raised
        /\ DeliveredText # ""
        /\ StrIn("error", DeliveredText)

\* C11 witness: the completion call failed before its first fragment in the
\* streaming handler, and the user received the streaming error text.
C11_Witness ==
    /\ Allowed
    /\ last.op = "stream_response_async"
    /\ last.svc.composer.error
    /\ last.svc.composer.fragments = <<>>
    /\ last.delivered = <<"Streaming error: " \o ErrorText>>

\* C11 second witness: the composition call raised in process_query_async.
C11_WitnessBatch ==
    /\ Allowed
    /\ last.op = "process_query_async"
    /\ last.svc.composer.error
    /\ StrIn("I encountered an error", DeliveredText)

\* C12: clear_session_memory on a session the store does not hold (never
\* written, or cleared before) changes nothing and raises nothing; after any
\* clear the session is gone, so a second clear leaves what the first left.
C12_ClearIsIdempotent ==
    (last.op = "clear_session_memory") =>
        /\ ~last.raised
        /\ last.session \notin DOMAIN conversation_memory
        /\ (last.session \notin DOMAIN last.before => conversation_memory = last.before)
        /\ (last.again => conversation_memory = last.before)

\* C12 witness: a session was cleared twice in a row while the other session
\* held a history.
C12_Witness ==
    /\ last.op = "clear_session_memory"
    /\ last.again
    /\ last.session = "s1"
    /\ "s2" \in DOMAIN conversation_memory
    /\ conversation_memory = last.before

\* C13: get_memory_context returns the sentinel for a session the store does
\* not hold, in particular right after clear_session_memory whatever was
\* cleared, and never for a session that holds an exchange.
C13_SentinelIffNoHistory ==
    (last.op = "get_memory_context") =>
        /\ (last.session \notin DOMAIN last.before =>
                last.returned = NoPreviousConversation)
        /\ (last.cleared # <<>> => last.returned = NoPreviousConversation)
        /\ (last.session \in DOMAIN last.before /\ Len(last.before[last.session]) >= 1
                => last.returned # NoPreviousConversation)

\* C13 witness: the context of a session was read right after a compacted
\* history was cleared from it.
C13_Witness ==
    /\ last.op = "get_memory_context"
    /\ last.cleared # <<>>
    /\ last.cleared[1].user = SummaryUser
    /\ last.returned = NoPreviousConversation

\* C13 second witness: the context of a session that holds exchanges was read.
C13_WitnessHistory ==
    /\ last.op = "get_memory_context"
    /\ last.session \in DOMAIN last.before
    /\ Len(last.before[last.session]) >= 2
    /\ last.returned # NoPreviousConversation

\* The two lines of the exchanges number first..last of a history, in order.
Lines(history, first, last_) ==
    [i \in 1..(2 * (last_ - first + 1)) |->
        IF i % 2 = 1 THEN "User: " \o history[first + (i - 1) \div 2].user
        ELSE "Assistant: " \o history[first + (i - 1) \div 2].assistant]

\* C14: for a session with n >= 1 exchanges get_memory_context returns the
\* lines "User: ..." and "Assistant: ..." of exactly the last min(n, 10)
\* exchanges, oldest first, joined by newlines.
C14_ContextRendersLastTen ==
    (last.op = "get_memory_context" /\ Len(History(last.before, last.session)) >= 1) =>
        LET history == History(last.before, last.session)
            n == Len(history)
            shown == IF n < ContextExchanges THEN n ELSE ContextExchanges
        IN  last.returned = Join("\n", Lines(history, n - shown + 1, n))

\* C14 witness: the context of a history of 12 exchanges was read, and it
\* begins with the third exchange.
C14_Witness ==
    /\ last.op = "get_memory_context"
    /\ Len(History(last.before, last.session)) = 12
    /\ SubSeq(last.returned, 1, 16) = "User: " \o RunUserText(2)
    /\ ~StrIn(RunUserText(1), last.returned)

\* C14 second witness: the context of a compacted history was read, the
\* summary exchange still among the exchanges shown.
C14_WitnessCompacted ==
    /\ last.op = "get_memory_context"
    /\ Len(History(last.before, last.session)) = DefaultKeepRecent + 2
    /\ StrIn("User: " \o SummaryUser \o "\nAssistant: " \o SummaryText, last.returned)

\* The positions of the calls to a service among the calls of the last query.
Positions(svc) == {i \in 1..Len(last.calls) : last.calls[i].svc = svc}

\* C15: for an allowed query without a freshness keyword whose retrieval
\* returns no passages, web search is called before the answer is composed.
C15_WebFallbackOnInsufficientRetrieval ==
    (Allowed /\ ~Fresh[last.query] /\ last.svc.retrieval \in {"empty", "error"}) =>
        /\ Positions("web_search") # {}
        /\ \A w \in Positions("web_search"), c \in Positions("compose") : w < c

\* C15 case reached: retrieval returned nothing for the revenue question, and
\* the answer was composed from "No relevant documents found." alone.
C15_EmptyRetrievalReached ==
    /\ Allowed
    /\ last.query = "What was Amazon's 2023 revenue?"
    /\ last.svc.retrieval = "empty"
    /\ Count(last.calls, "web_search") = 0
    /\ StrIn("No relevant documents found.", ComposedPrompt)

\* The memory context of the session as it was when the query arrived.
ContextAtQuery == agent_get_memory_context(last.before, last.session)

\* C16: for every allowed query, on every route, the prompt handed to the
\* composer contains the memory context of the session at the time of the query.
C16_PromptCarriesMemoryContext ==
    Allowed =>
        /\ Count(last.calls, "compose") = 1
        /\ StrIn(ContextAtQuery, ComposedPrompt)

\* C16 case reached: a weather question asked after a conversation of a dozen
\* exchanges was composed from a prompt that names none of them.
C16_WebPromptWithoutContext ==
    /\ Allowed
    /\ last.route = "WEB"
    /\ Len(History(last.before, last.session)) = MidConversation
    /\ ~StrIn(SeedQuery, ComposedPrompt)

\* C16 on the general route: there the prompt does carry the context.
C16_GeneralPromptWithContext ==
    /\ Allowed
    /\ last.route = "NONE"
    /\ Len(History(last.before, last.session)) = MidConversation
    /\ StrIn(ContextAtQuery, ComposedPrompt)

\* C17: every allowed query leaves exactly one new exchange at the end of its
\* session's history, the query and the text delivered to the user, whatever
\* the services did; what precedes it is the end of the history found.
C17_OneExchangePerAllowedQuery ==
    Allowed =>
        LET before == History(last.before, last.session)
            after == History(agent_memory, last.session)
            kept == Len(after) - 1
        IN  /\ Len(after) >= 1
            /\ after[Len(after)] = [user |-> last.query, assistant |-> DeliveredText]
            /\ kept <= Len(before)
            /\ SubSeq(after, 1, kept) = SubSeq(before, Len(before) - kept + 1, Len(before))

\* C17 case reached: the composition call raised in process_query_async, the
\* user received the error text and the session's history is as it was.
C17_BatchErrorNotStored ==
    /\ Allowed
    /\ last.op = "process_query_async"
    /\ last.svc.composer.error
    /\ DeliveredText # ""
    /\ agent_memory = last.before

\* C17 in the streaming handler: the failed composition is stored.
C17_StreamErrorStored ==
    /\ Allowed
    /\ last.op = "stream_response_async"
    /\ last.svc.composer.error
    /\ Len(History(agent_memory, last.session)) = Len(History(last.before, last.session)) + 1

\* A call to a source of context.
IsSource(call) == call.svc \in {"retrieval", "web_search"}

\* What the handler of the last query does with the same query and the same
\* service outcomes on a session without history.
OnEmptyMemory ==
    IF last.op = "process_query_async"
    THEN process_query_async(<<>>, last.query, last.session, last.svc)
    ELSE stream_response_async(<<>>, last.query, last.session, last.svc)

\* C19: the route and the sources consulted for a query are those of the same
\* query with the same service outcomes on a session without history, however
\* long the conversation before it.
C19_RoutingIgnoresHistory ==
    (last.op \in HandlerOps) =>
        /\ last.route = OnEmptyMemory.route
        /\ SelectSeq(last.calls, IsSource) = SelectSeq(OnEmptyMemory.calls, IsSource)

\* C19 witness: the revenue question went to the documents after a
\* conversation longer than the agent keeps.
C19_Witness ==
    /\ last.op \in HandlerOps
    /\ Len(History(last.before, last.session)) = AgentKeepLast
    /\ last.query = "What was Amazon's 2023 revenue?"
    /\ last.route = "DOCUMENTS"
    /\ Count(last.calls, "retrieval") = 1

\* C19 second witness: a general question after a conversation, its prompt
\* carrying the conversation while no source is consulted.
C19_WitnessGeneral ==
    /\ Allowed
    /\ Len(History(last.before, last.session)) = 1
    /\ last.route = "NONE"
    /\ SelectSeq(last.calls, IsSource) = <<>>
    /\ StrIn(SeedResponse, ComposedPrompt)

\* The text each tool returns for an empty sequence of results.
NothingFound ==
    [web_search |-> "No web search results found.",
     retrieval |-> "No relevant documents found."]

\* The service of the last query that failed, if one did.
FailedSource ==
    IF last.svc.web = "error" THEN "web_search"
    ELSE IF last.svc.retrieval = "error" THEN "retrieval"
    ELSE None

\* C18: when the web-search or the retrieval service fails, the tool gets an
\* empty sequence (its "nothing found" text goes into the prompt), the handler
\* raises nothing, composes once after the failed call, and delivers what the
\* composer produced.
C18_SourceFailureIsAbsorbed ==
    (Allowed /\ FailedSource # None) =>
        /\ ~last.raised
        /\ Count(last.calls, FailedSource) = 1
        /\ Count(last.calls, "compose") = 1
        /\ \A f \in Positions(FailedSource), c \in Positions("compose") : f < c
        /\ StrIn(NothingFound[FailedSource], ComposedPrompt)
        /\ ~StrIn(ErrorText, ComposedPrompt)
        /\ (~last.svc.composer.error /\ last.svc.composer.fragments # <<>>) =>
                DeliveredText = final_output(last.svc.composer)

\* C18 witness: the search provider failed on the weather question and the
\* answer was composed all the same.
C18_Witness ==
    /\ Allowed
    /\ last.query = "What's the weather in Paris today?"
    /\ last.svc.web = "error"
    /\ ~last.svc.composer.error
    /\ DeliveredText = "It is sunny."
    /\ StrIn("No web search results found.", ComposedPrompt)

\* C18 second witness: the document index failed on the revenue question.
C18_WitnessRetrieval ==
    /\ Allowed
    /\ last.query = "What was Amazon's 2023 revenue?"
    /\ last.svc.retrieval = "error"
    /\ ~last.svc.composer.error
    /\ DeliveredText = "It is sunny."
    /\ StrIn("No relevant documents found.", ComposedPrompt)

\* The store holds the same history, or none, for the session in both.
SameHistory(memory1, memory2, session_id) ==
    /\ (session_id \in DOMAIN memory1) <=> (session_id \in DOMAIN memory2)
    /\ session_id \in DOMAIN memory1 => memory1[session_id] = memory2[session_id]

\* C20: update_memory, with or without compaction and whether summarization
\* succeeds or fails, and clear_session_memory leave the history of every
\* session other than the one they are called with exactly as it was.
C20_SessionsAreIndependent ==
    (last.op \in {"update_memory", "clear_session_memory"}) =>
        \A sid \in SessionIds \ {last.session} :
            SameHistory(last.before, conversation_memory, sid)

\* C20 witness: a session was compacted by the fallback while the other
\* session held a compacted history of its own.
C20_Witness ==
    /\ last.op = "update_memory"
    /\ last.session = "s1"
    /\ last.summarizations = 1
    /\ last.summary = "error"
    /\ "s2" \in DOMAIN conversation_memory
    /\ conversation_memory["s2"][1].user = SummaryUser

\* C20 second witness: a session was cleared while the other held a history.
C20_WitnessClear ==
    /\ last.op = "clear_session_memory"
    /\ last.session \in DOMAIN last.before
    /\ \E sid \in SessionIds \ {last.session} :
          sid \in DOMAIN conversation_memory /\ Len(conversation_memory[sid]) >= 1

\* The history of the session thread t called update_memory with, had the
\* call run alone on the store as it was when the threads started.
AloneHistories(t) ==
    { Texts(update_memory(last.base, threads[t].session, threads[t].user,
                          threads[t].assistant, max_exchanges, keep_recent,
                          summary, 0).memory[threads[t].session])
      : summary \in SummaryOutcomes }

\* Both threads have returned from calls on different sessions.
BothDoneOnTwoSessions ==
    /\ \A t \in ThreadIds : threads[t].pc = "done"
    /\ threads["t1"].session # threads["t2"].session

\* C20 for overlapping calls: two update_memory calls on different sessions
\* whose statements interleave each leave their session as if run alone.
C20_OverlappingCallsOnTwoSessions ==
    BothDoneOnTwoSessions =>
        \A t \in ThreadIds :
            Texts(conversation_memory[threads[t].session]) \in AloneHistories(t)

(***************************************************************************)
(* Claims about the bounds and the shape of the stored history             *)
(***************************************************************************)

\* C21: under every policy with max_exchanges >= 1 and 0 <= keep_recent <
\* max_exchanges, a session's history is never longer than max_exchanges when
\* update_memory returns, whether summarization succeeds or fails.
C21_HistoryNeverExceedsMaxExchanges ==
    (last.op = "update_memory") => Len(HistoryAfter) <= max_exchanges

\* C21 case reached: with keep_recent = 0 a compaction that summarized nothing
\* left the summary exchange in front of the whole history.
C21_KeepNoneGrows ==
    /\ last.op = "update_memory"
    /\ keep_recent = 0
    /\ last.summarizations = 1
    /\ Len(HistoryAfter) = Len(HistoryBefore) + 2
    /\ Len(HistoryAfter) > max_exchanges

\* C21 with keep_recent >= 1: compaction leaves at most keep_recent + 1
\* exchanges, which is at most max_exchanges.
C21_BoundedWhenKeepingSome ==
    (last.op = "update_memory" /\ keep_recent >= 1) =>
        Len(HistoryAfter) <= max_exchanges

\* seq ends with the k last elements of other, unchanged and in order.
EndsWithLast(seq, other, k) ==
    /\ k <= Len(seq)
    /\ k <= Len(other)
    /\ \A i \in 1..k : seq[Len(seq) - k + i] = other[Len(other) - k + i]

\* The exchange is the one the last update_memory call was given.
IsGivenExchange(exchange) ==
    exchange.user = last.user /\ exchange.assistant = last.assistant

\* C22: an update_memory call that does not compact leaves the history it
\* found followed by the new exchange; one that compacts, summarizing or
\* falling back, leaves the keep_recent most recent exchanges (the new one
\* included) unchanged and in order at the end, behind at most the summary
\* exchange and nothing else that was not there; the new exchange is last.
C22_AppendOnlyExceptCompaction ==
    (last.op = "update_memory") =>
        LET n == Len(HistoryBefore)
            m == Len(HistoryAfter)
            summarized == m >= 1 /\ HistoryAfter[1].user = SummaryUser
                          /\ last.summary = "summary"
            tail == IF summarized THEN m - 1 ELSE m
        IN  /\ m >= 1
            /\ IsGivenExchange(HistoryAfter[m])
            /\ last.summarizations = 0 =>
                  (m = n + 1 /\ SubSeq(HistoryAfter, 1, n) = HistoryBefore)
            /\ last.summarizations = 1 =>
                  /\ tail >= keep_recent
                  /\ tail <= n + 1
                  /\ EndsWithLast(SubSeq(HistoryAfter, 1, m - 1), HistoryBefore, tail - 1)
                  /\ (last.summary = "summary") => summarized

\* C22 witness: a compaction that summarized kept the two most recent
\* exchanges, the older "Hello" and the new "How are you?", behind the summary.
C22_Witness ==
    /\ last.op = "update_memory"
    /\ keep_recent = 2
    /\ last.summarizations = 1
    /\ last.summary = "summary"
    /\ Len(HistoryAfter) = 3
    /\ HistoryAfter[2] = HistoryBefore[Len(HistoryBefore)]
    /\ HistoryAfter[2].user = "Hello"
    /\ HistoryAfter[3].user = "How are you?"

\* C22 second witness: the fallback kept the two most recent exchanges alone.
C22_WitnessFallback ==
    /\ last.op = "update_memory"
    /\ keep_recent = 2
    /\ last.summary = "error"
    /\ Len(HistoryAfter) = 2
    /\ HistoryAfter[1] = HistoryBefore[Len(HistoryBefore)]
    /\ HistoryAfter[1].user # HistoryAfter[2].user

\* The operations of the store that only read.
ReadOps == {"get_memory_context", "get_session_stats"}

\* C23: get_memory_context and get_session_stats leave the store as they found
\* it, creating no entry for a session it does not hold, and get_session_stats
\* reports as exchanges the length of the session's history, 0 when there is none.
C23_ReadsLeaveStoreUnchanged ==
    (last.op \in ReadOps) =>
        /\ conversation_memory = last.before
        /\ DOMAIN conversation_memory = DOMAIN last.before
        /\ (last.op = "get_session_stats") =>
              last.returned.exchanges = Len(History(conversation_memory, last.session))

\* C23 witness: the statistics of a session of two exchanges were read, as
\* the test script does.
C23_Witness ==
    /\ last.op = "get_session_stats"
    /\ Len(History(conversation_memory, last.session)) = 2
    /\ last.returned.exchanges = 2
    /\ last.returned.total_chars > 0

\* C23 second witness: the statistics and the context of a session the store
\* does not hold were read while it held another, and no entry appeared.
C23_WitnessUnknownSession ==
    /\ last.op = "get_session_stats"
    /\ last.session \notin DOMAIN conversation_memory
    /\ DOMAIN conversation_memory # {}
    /\ last.returned = [exchanges |-> 0, total_tokens_estimate |-> 0]

\* The operations that act on the agent's memory and on the store side by side.
TwinOps == {"both.update_memory", "both.get_memory_context"}

\* C24: after every sequence of appends the agent's own memory holds the
\* exchanges the store holds, summary exchange included, and both render the
\* same context.
C24_AgentMemoryMatchesStore ==
    (last.op \in TwinOps) =>
        /\ Texts(History(agent_memory, "s1")) = Texts(History(conversation_memory, "s1"))
        /\ (last.op = "both.get_memory_context") => last.agent_returned = last.returned

\* C24 case reached: the 20th exchange made the store compact to the summary
\* and the 5 most recent exchanges, while the agent holds all 20 and no summary.
C24_AgentKeepsTwentyUncompacted ==
    /\ last.op = "both.update_memory"
    /\ last.summarizations = 1
    /\ last.summary = "summary"
    /\ Len(History(conversation_memory, "s1")) = DefaultKeepRecent + 1
    /\ History(conversation_memory, "s1")[1].user = SummaryUser
    /\ Len(History(agent_memory, "s1")) = DefaultMaxExchanges
    /\ \A i \in 1..DefaultMaxExchanges : History(agent_memory, "s1")[i].user # SummaryUser

\* C24 case reached: past 20 exchanges the agent drops the oldest one at each
\* append and keeps 20.
C24_AgentDropsOldest ==
    /\ last.op = "both.update_memory"
    /\ Len(History(last.agent_before, "s1")) = AgentKeepLast
    /\ Len(History(agent_memory, "s1")) = AgentKeepLast
    /\ History(agent_memory, "s1")[1] = History(last.agent_before, "s1")[2]

\* C24 before the first compaction: for fewer than 20 appends both hold the
\* same exchanges and render the same context.
C24_SameBeforeFirstCompaction ==
    (last.op \in TwinOps /\ clock < DefaultMaxExchanges) =>
        /\ Texts(History(agent_memory, "s1")) = Texts(History(conversation_memory, "s1"))
        /\ (last.op = "both.get_memory_context") => last.agent_returned = last.returned

(***************************************************************************)
(* The two delivery modes compared                                         *)
(***************************************************************************)

\* What the other handler does with the query of the last operation, on the
\* memory that one found and with the same outcomes of the services.
OtherMode ==
    IF last.op = "process_query_async"
    THEN stream_response_async(last.before, last.query, last.session, last.svc)
    ELSE process_query_async(last.before, last.query, last.session, last.svc)

\* The calls to the guardrail's moderation service and to the sources.
IsGuardOrSource(call) == call.svc \in {"moderation", "retrieval", "web_search"}

\* C25: for the same query, memory and service outcomes, the two handlers make
\* the same moderation, retrieval and web-search calls, each at most once,
\* deliver the same text in total and leave the same memory.
C25_StreamingMatchesBatch ==
    (last.op \in HandlerOps) =>
        /\ SelectSeq(last.calls, IsGuardOrSource) = SelectSeq(OtherMode.calls, IsGuardOrSource)
        /\ \A svc \in {"moderation", "retrieval", "web_search"} : Count(last.calls, svc) <= 1
        /\ DeliveredText = Concat(OtherMode.delivered)
        /\ agent_memory = OtherMode.memory

\* C25 case reached: the composer returned no content; the streaming handler
\* delivered nothing and stored an empty answer, where process_query_async
\* delivers and stores its apology.
C25_EmptyOutputDiffers ==
    /\ Allowed
    /\ last.op = "stream_response_async"
    /\ ~last.svc.composer.error
    /\ last.svc.composer.fragments = <<>>
    /\ DeliveredText = ""
    /\ Concat(OtherMode.delivered) # ""
    /\ agent_memory # OtherMode.memory

\* C25 case reached: the composition call failed; the streaming handler stored
\* its error text, where process_query_async stores nothing and words the
\* error differently.
C25_FailureDiffers ==
    /\ Allowed
    /\ last.op = "stream_response_async"
    /\ last.svc.composer.error
    /\ DeliveredText # Concat(OtherMode.delivered)
    /\ OtherMode.memory = last.before
    /\ agent_memory # last.before

\* C25 when the composer answers: blocked queries, and allowed ones whose
\* composition succeeds with content, are handled alike in both modes.
C25_SameWhenComposerAnswers ==
    (last.op \in HandlerOps
        /\ (Allowed => (~last.svc.composer.error /\ last.svc.composer.fragments # <<>>))) =>
        /\ SelectSeq(last.calls, IsGuardOrSource) = SelectSeq(OtherMode.calls, IsGuardOrSource)
        /\ \A svc \in {"moderation", "retrieval", "web_search"} : Count(last.calls, svc) <= 1
        /\ DeliveredText = Concat(OtherMode.delivered)
        /\ agent_memory = OtherMode.memory

\* C25: the calls alone agree in every case, failures included.
C25_SameCallsAlways ==
    (last.op \in HandlerOps) =>
        /\ last.calls = OtherMode.calls
        /\ last.route = OtherMode.route

====
